---- MODULE Spec2Model ----
(***************************************************************************)
(* Model of axelrod/strategies/gambler.py: the stochastic lookup-table     *)
(* strategy (Gambler) and its evolvable wrapper (EvolvableGambler).        *)
(*                                                                         *)
(* Python lists are objects with identity: `heap` holds every list object  *)
(* (address -> contents) and an instance's `pattern` field is an address,  *)
(* so that aliasing and in-place updates are visible.                      *)
(*                                                                         *)
(* Weights are fixed-point numbers in eighths: the float 1.0 is One (8),   *)
(* 0.5 is 4, 0.125 is 1.                                                   *)
(***************************************************************************)
EXTENDS Integers, Sequences, FiniteSets, TLC

VARIABLES
    heap,        \* Seq of list objects; heap[a] is the contents of list a
    inst,        \* Seq of EvolvableGambler instances, in order of creation
    last,        \* the most recent call: what was called, on what, outcome
    serialized,  \* the last string produced by serialize_parameters
    play,        \* one call of Gambler.strategy: looked-up value, draw, result
    calls        \* number of method calls made so far

vars == <<heap, inst, last, serialized, play, calls>>

----------------------------------------------------------------------------
(* Bound of the model *)

MaxCalls == 2    \* method calls made on the initial population

(* Program constants *)

C == 0           \* Action.C
D == 1           \* Action.D
One == 8         \* the weight 1.0 in eighths

ActionValues == {C, D}

(* Inputs the environment (optimizer, random module) draws from *)

Vectors == { <<4>>, <<3, 5>>, <<4, 4, 4>> }  \* vectors given to receive_vector
MutProbs == {0, 4, One}         \* 0.0, 0.5, 1.0
RandSet == {0, 4}               \* np.random.random(): values in [0, 1)
EpsSet == {-2, 1}               \* random.uniform(-1, 1) / 4: -0.25, 0.125

----------------------------------------------------------------------------
(* Helpers *)

RECURSIVE Pow2(_)
Pow2(n) == IF n = 0 THEN 1 ELSE 2 * Pow2(n - 1)

Max3(t) == LET m == IF t[1] >= t[2] THEN t[1] ELSE t[2]
           IN IF m >= t[3] THEN m ELSE t[3]

SeqsOfLen(S, n) == [1..n -> S]

\* itertools.product((C, D), repeat=n), element idx (1-based): C before D,
\* the first position the most significant.
ActionSeq(n, idx) ==
    [j \in 1..n |-> IF ((idx - 1) \div Pow2(n - j)) % 2 = 0 THEN C ELSE D]

\* create_lookup_table_keys: product(self_plays, op_plays, op_openings),
\* the self window outermost.
create_lookup_table_keys(plays, op_plays, op_start_plays) ==
    [i \in 1..(Pow2(plays) * Pow2(op_plays) * Pow2(op_start_plays)) |->
        LET c == (i - 1) % Pow2(op_start_plays)
            b == ((i - 1) \div Pow2(op_start_plays)) % Pow2(op_plays)
            a == (i - 1) \div (Pow2(op_start_plays) * Pow2(op_plays))
        IN << ActionSeq(plays, a + 1),
              ActionSeq(op_plays, b + 1),
              ActionSeq(op_start_plays, c + 1) >>]

KeysOf(parameters) ==
    create_lookup_table_keys(parameters[1], parameters[2], parameters[3])

\* LookupTable.from_pattern: a size-mismatch error unless the pattern has
\* one weight per key; else dict(zip(keys, pattern)).
from_pattern(pattern, self_depth, op_depth, op_openings_depth) ==
    LET keys == create_lookup_table_keys(self_depth, op_depth, op_openings_depth)
    IN IF Len(keys) # Len(pattern)
       THEN [ok |-> FALSE, table |-> <<>>]
       ELSE [ok |-> TRUE,
             table |-> [k \in {keys[i] : i \in 1..Len(keys)} |->
                          pattern[CHOOSE i \in 1..Len(keys) : keys[i] = k]]]

\* `last`: op is the method called, self/other the instances it was called
\* with, result the instance returned (0: none), error what it raised,
\* arg the vector address / cross point / mutation probability used.
NoCall == [op |-> "none", self |-> 0, other |-> 0, result |-> 0,
           error |-> "none", arg |-> 0]

Call(op, self, other, result, error, arg) ==
    [op |-> op, self |-> self, other |-> other, result |-> result,
     error |-> error, arg |-> arg]

\* `serialized`: text is the string serialize_parameters returned, input
\* the string last given to deserialize_parameters; parameters, pattern and
\* initial_actions record the instance the text was made from.
NoString == [text |-> <<>>, input |-> <<>>, parameters |-> <<>>,
             pattern |-> <<>>, initial_actions |-> <<>>]

\* `play`: value is what the table lookup returned (an Action or a weight),
\* u the sample random_choice would draw, result the action played.
NoPlay == [value |-> [isAction |-> FALSE, v |-> 0], u |-> 0,
           result |-> C, drew |-> FALSE, pc |-> "off"]

PatternOf(i) == heap[inst[i].pattern]

----------------------------------------------------------------------------
(* EvolvableGambler.__init__ *)

\* What the base-class constructors reject: a pattern whose length is not
\* the key-space size, seed actions shorter than the largest depth.
ValidConstruction(parameters, pattern, initial_actions) ==
    /\ from_pattern(pattern, parameters[1], parameters[2], parameters[3]).ok
    /\ Len(initial_actions) >= Max3(parameters)

\* The instance __init__ builds; its pattern is list(self.pattern), a new
\* list object stored at address `addr`.
EvolvableGambler(parameters, pattern, initial_actions, mutation_probability, addr) ==
    [parameters |-> parameters,
     pattern |-> addr,
     lookup |-> from_pattern(pattern, parameters[1], parameters[2],
                             parameters[3]).table,
     initial_actions |-> initial_actions,
     mutation_probability |-> mutation_probability]

\* A constructor call made on heap h: the new instance and its list are
\* appended, or the call raises and leaves only h.
Construction(h, parameters, pattern, initial_actions, mutation_probability, op, self, other, arg) ==
    IF ValidConstruction(parameters, pattern, initial_actions)
    THEN /\ heap' = Append(h, pattern)
         /\ inst' = Append(inst, EvolvableGambler(parameters, pattern,
                        initial_actions, mutation_probability, Len(h) + 1))
         /\ last' = Call(op, self, other, Len(inst) + 1, "none", arg)
    ELSE /\ heap' = h
         /\ inst' = inst
         /\ last' = Call(op, self, other, 0, "ValueError", arg)

Room == calls < MaxCalls

----------------------------------------------------------------------------
(* receive_vector *)

\* (variant: the table built by dict(zip(keys, vector)) with no length check)
receive_vector_Zip(self, vector, h) ==
    LET p == inst[self].parameters
        keys == KeysOf(p)
        n == IF Len(keys) < Len(h[vector]) THEN Len(keys) ELSE Len(h[vector])
    IN [inst |-> [inst EXCEPT ![self].pattern = vector,
                              ![self].lookup =
                                 [k \in {keys[i] : i \in 1..n} |->
                                    h[vector][CHOOSE i \in 1..n : keys[i] = k]]],
        error |-> "none"]

\* self.pattern = vector; self._lookup = LookupTable.from_pattern(...).
\* The assignment of the pattern comes first and stays when from_pattern
\* raises.
receive_vector(self, vector, h) ==
    LET p == inst[self].parameters
        t == from_pattern(h[vector], p[1], p[2], p[3])
    IN [inst |-> [inst EXCEPT ![self].pattern = vector,
                              ![self].lookup = IF t.ok THEN t.table ELSE @],
        error |-> IF t.ok THEN "none" ELSE "ValueError"]

\* The caller passes a list it already holds (an existing list object) or a
\* freshly built one.
ReceiveVector ==
    /\ Room
    /\ \E self \in 1..Len(inst) :
         \/ \E vector \in 1..Len(heap) :
               LET r == receive_vector(self, vector, heap)
               IN /\ heap' = heap
                  /\ inst' = r.inst
                  /\ last' = Call("receive_vector", self, 0, 0, r.error, vector)
         \/ \E v \in Vectors :
               LET h == Append(heap, v)
                   r == receive_vector(self, Len(h), h)
               IN /\ heap' = h
                  /\ inst' = r.inst
                  /\ last' = Call("receive_vector", self, 0, 0, r.error, Len(h))
    /\ calls' = calls + 1
    /\ UNCHANGED <<serialized, play>>

----------------------------------------------------------------------------
(* mutate *)

\* (variant: the upper clamp `if pattern[i] > 1` left out)
mutate_weight_NoUpperClamp(w, random, mutation_probability, ep) ==
    IF random < mutation_probability
    THEN LET a == w + ep IN IF a < 0 THEN 0 ELSE a
    ELSE w

\* (variant: `randoms[i] <= mutation_probability`)
mutate_weight_Leq(w, random, mutation_probability, ep) ==
    IF random <= mutation_probability
    THEN LET a == w + ep
             b == IF a < 0 THEN 0 ELSE a
         IN IF b > One THEN One ELSE b
    ELSE w

\* The loop body of mutate_pattern for one weight.
mutate_weight(w, random, mutation_probability, ep) ==
    IF random < mutation_probability
    THEN LET a == w + ep
             b == IF a < 0 THEN 0 ELSE a
         IN IF b > One THEN One ELSE b
    ELSE w

\* mutate_pattern: the contents of `pattern` when the loop ends.
mutate_pattern(pattern, mutation_probability, randoms, eps) ==
    [i \in 1..Len(pattern) |->
        mutate_weight(pattern[i], randoms[i], mutation_probability, eps[i])]

\* mutate: mutate_pattern works on the list self.pattern itself and returns
\* it; the constructor then copies it into the new instance.
Mutate ==
    /\ Room
    /\ \E self \in 1..Len(inst) :
         LET a == inst[self].pattern
             n == Len(heap[a])
             mp == inst[self].mutation_probability
         IN \E randoms \in SeqsOfLen(RandSet, n), eps \in SeqsOfLen(EpsSet, n) :
            \E initial_actions \in
                    SeqsOfLen(ActionValues, Max3(inst[self].parameters)) :
               LET pattern == mutate_pattern(heap[a], mp, randoms, eps)
                   h == [heap EXCEPT ![a] = pattern]
               IN Construction(h, inst[self].parameters, pattern,
                               initial_actions, mp, "mutate", self, 0, mp)
    /\ calls' = calls + 1
    /\ UNCHANGED <<serialized, play>>

----------------------------------------------------------------------------
(* crossover *)

\* (variant: the parents swapped, pattern2[:cross_point] + pattern1[cross_point:])
offspring_pattern_Swapped(pattern1, pattern2, cross_point) ==
    SubSeq(pattern2, 1, IF cross_point > Len(pattern2) THEN Len(pattern2)
                        ELSE cross_point)
        \o (IF cross_point >= Len(pattern1) THEN <<>>
            ELSE SubSeq(pattern1, cross_point + 1, Len(pattern1)))

\* pattern1[:cross_point] + pattern2[cross_point:]
offspring_pattern(pattern1, pattern2, cross_point) ==
    SubSeq(pattern1, 1, cross_point)
        \o (IF cross_point >= Len(pattern2) THEN <<>>
            ELSE SubSeq(pattern2, cross_point + 1, Len(pattern2)))

Crossover ==
    /\ Room
    /\ \E self \in 1..Len(inst), other \in 1..Len(inst) :
         \E cross_point \in 0..Len(PatternOf(self)) :
            Construction(heap, inst[self].parameters,
                         offspring_pattern(PatternOf(self), PatternOf(other),
                                           cross_point),
                         inst[self].initial_actions,
                         inst[self].mutation_probability,
                         "crossover", self, other, cross_point)
    /\ calls' = calls + 1
    /\ UNCHANGED <<serialized, play>>

----------------------------------------------------------------------------
(* serialize_parameters / deserialize_parameters.  A Python str is modelled *)
(* as the sequence of its characters.                                       *)

DigitChars == <<"0", "1", "2", "3", "4", "5", "6", "7", "8", "9">>

IsDigit(c) == \E d \in 1..10 : DigitChars[d] = c

DigitValue(c) == (CHOOSE d \in 1..10 : DigitChars[d] = c) - 1

\* "{}".format(n) for an int n >= 0
RECURSIVE IntStr(_)
IntStr(n) == IF n < 10 THEN <<DigitChars[n + 1]>>
             ELSE IntStr(n \div 10) \o <<DigitChars[(n % 10) + 1]>>

\* (variant: the weight rendered with two decimals, "%.2f")
FloatStr_TwoDecimals(w) ==
    LET frac == ((w % One) * 1000) \div One
    IN IntStr(w \div One) \o <<".">>
         \o <<DigitChars[(frac \div 100) + 1], DigitChars[((frac \div 10) % 10) + 1]>>

\* str(v) for a float v = w/8: the shortest decimal that reads back as v,
\* with at least one digit after the point ("0.0", "0.125", "0.5", "1.0").
FloatStr(w) ==
    LET frac == ((w % One) * 1000) \div One
        d1 == frac \div 100
        d2 == (frac \div 10) % 10
        d3 == frac % 10
        digits == IF d3 # 0 THEN <<d1, d2, d3>>
                  ELSE IF d2 # 0 THEN <<d1, d2>> ELSE <<d1>>
    IN IntStr(w \div One) \o <<".">>
         \o [i \in 1..Len(digits) |-> DigitChars[digits[i] + 1]]

\* sep.join(parts)
RECURSIVE Join(_, _)
Join(parts, sep) ==
    IF Len(parts) = 0 THEN <<>>
    ELSE IF Len(parts) = 1 THEN parts[1]
    ELSE parts[1] \o <<sep>> \o Join(Tail(parts), sep)

\* text.split(sep)
RECURSIVE Split(_, _)
Split(text, sep) ==
    IF \A i \in 1..Len(text) : text[i] # sep THEN <<text>>
    ELSE LET i == CHOOSE j \in 1..Len(text) :
                     text[j] = sep /\ \A m \in 1..(j - 1) : text[m] # sep
         IN <<SubSeq(text, 1, i - 1)>>
              \o Split(SubSeq(text, i + 1, Len(text)), sep)

\* actions_to_str: one letter per action
actions_to_str(actions) ==
    [i \in 1..Len(actions) |-> IF actions[i] = C THEN "C" ELSE "D"]

\* str_to_actions: an unknown letter raises
str_to_actions(text) ==
    IF \A i \in 1..Len(text) : text[i] \in {"C", "D"}
    THEN [ok |-> TRUE,
          actions |-> [i \in 1..Len(text) |-> IF text[i] = "C" THEN C ELSE D]]
    ELSE [ok |-> FALSE, actions |-> <<>>]

RECURSIVE DigitsValue(_)
DigitsValue(text) ==
    IF Len(text) = 0 THEN 0
    ELSE 10 * DigitsValue(SubSeq(text, 1, Len(text) - 1))
           + DigitValue(text[Len(text)])

\* int(text), for the decimal literals of the model: digits only
ParseInt(text) ==
    IF Len(text) > 0 /\ \A i \in 1..Len(text) : IsDigit(text[i])
    THEN [ok |-> TRUE, value |-> DigitsValue(text)]
    ELSE [ok |-> FALSE, value |-> 0]

\* float(text), for the decimal literals of the model: digits with at most
\* one point and at most three digits after it; the value in eighths.
ParseFloat(text) ==
    LET parts == Split(text, ".")
        wellFormed ==
            /\ Len(parts) \in {1, 2}
            /\ \A q \in 1..Len(parts) :
                  \A i \in 1..Len(parts[q]) : IsDigit(parts[q][i])
            /\ \E q \in 1..Len(parts) : Len(parts[q]) > 0
        fracText == IF Len(parts) = 2 THEN parts[2] ELSE <<>>
        frac3 == SubSeq(fracText \o <<"0", "0", "0">>, 1, 3)
    IN IF wellFormed
       THEN [ok |-> TRUE,
             value |-> ((DigitsValue(parts[1]) * 1000 + DigitsValue(frac3)) * One)
                          \div 1000]
       ELSE [ok |-> FALSE, value |-> 0]

\* serialize_parameters of an instance with parameters, pattern contents
\* and initial_actions
serialize_parameters(parameters, pattern, initial_actions) ==
    Join(<< IntStr(parameters[1]),
            IntStr(parameters[2]),
            IntStr(parameters[3]),
            Join([i \in 1..Len(pattern) |-> FloatStr(pattern[i])], "|"),
            actions_to_str(initial_actions) >>, ":")

\* deserialize_parameters up to the constructor call: s = serialized.split(':'),
\* the ints of s[0:3], the floats of s[3].split('|'), the actions of s[4].
\* A missing s[3] or s[4] is an IndexError; fields after s[4] are not read.
deserialize_parameters(text) ==
    LET s == Split(text, ":")
        head == SubSeq(s, 1, IF Len(s) < 3 THEN Len(s) ELSE 3)
        ints == [i \in 1..Len(head) |-> ParseInt(head[i])]
        floats == LET w == Split(s[4], "|")
                  IN [i \in 1..Len(w) |-> ParseFloat(w[i])]
        acts == str_to_actions(s[5])
        fail(e) == [ok |-> FALSE, error |-> e, parameters |-> <<>>,
                    pattern |-> <<>>, initial_actions |-> <<>>]
    IN IF \E i \in 1..Len(ints) : ~ints[i].ok THEN fail("ValueError")
       ELSE IF Len(s) < 4 THEN fail("IndexError")
       ELSE IF \E i \in 1..Len(floats) : ~floats[i].ok THEN fail("ValueError")
       ELSE IF Len(s) < 5 THEN fail("IndexError")
       ELSE IF ~acts.ok THEN fail("UnknownActionError")
       ELSE [ok |-> TRUE, error |-> "none",
             parameters |-> [i \in 1..3 |-> ints[i].value],
             pattern |-> [i \in 1..Len(floats) |-> floats[i].value],
             initial_actions |-> acts.actions]

SerializeParameters ==
    /\ Room
    /\ \E self \in 1..Len(inst) :
         /\ serialized' =
               [text |-> serialize_parameters(inst[self].parameters,
                            PatternOf(self), inst[self].initial_actions),
                input |-> <<>>,
                parameters |-> inst[self].parameters,
                pattern |-> PatternOf(self),
                initial_actions |-> inst[self].initial_actions]
         /\ last' = Call("serialize", self, 0, 0, "none", 0)
    /\ calls' = calls + 1
    /\ UNCHANGED <<heap, inst, play>>

\* Strings a caller may hand to deserialize_parameters: the serialized
\* text, and copies of it with the last field cut off, with a sixth field
\* added, with a weight that is no number, with a letter that is no action.
Inputs(text) ==
    LET s == Split(text, ":")
        w == Split(s[4], "|")
    IN { text,
         Join(SubSeq(s, 1, 4), ":"),
         Join(SubSeq(s, 1, 3), ":"),
         text \o <<":", "D">>,
         Join(<<s[1], s[2], s[3], Join(<< <<"x">> >> \o Tail(w), "|"), s[5]>>, ":"),
         Join(<<s[1], s[2], s[3], s[4], <<"X">> \o (IF Len(s[5]) = 0 THEN <<>> ELSE Tail(s[5]))>>, ":") }

\* cls(parameters=..., pattern=..., initial_actions=...): the mutation
\* probability is the base class's default.
DeserializeParameters ==
    /\ Room
    /\ Len(serialized.text) > 0
    /\ \E text \in Inputs(serialized.text), mp \in MutProbs :
         LET d == deserialize_parameters(text)
         IN /\ serialized' = [serialized EXCEPT !.input = text]
            /\ IF d.ok
               THEN Construction(heap, d.parameters, d.pattern,
                                 d.initial_actions, mp, "deserialize", 0, 0,
                                 Len(Split(text, ":")))
               ELSE /\ last' = Call("deserialize", 0, 0, 0, d.error,
                                    Len(Split(text, ":")))
                    /\ UNCHANGED <<heap, inst>>
    /\ calls' = calls + 1
    /\ UNCHANGED play

----------------------------------------------------------------------------

\* The state after the construction of a population of two instances.
Init ==
    /\ \E mp1 \in MutProbs, mp2 \in MutProbs :
         /\ heap = << <<1, 8>>, <<7, 0>> >>
         /\ inst = << EvolvableGambler(<<1, 0, 0>>, <<1, 8>>, <<C>>, mp1, 1),
                      EvolvableGambler(<<1, 0, 0>>, <<7, 0>>, <<D>>, mp2, 2) >>
    /\ last = NoCall
    /\ serialized = NoString
    /\ play = NoPlay
    /\ calls = 0

Next == Mutate \/ Crossover \/ ReceiveVector

Spec == Init /\ [][Next]_vars

----------------------------------------------------------------------------
(* Properties of the evolvable wrapper, checked under Spec *)

Instances == 1..Len(inst)

KeySpaceSize(parameters) == Pow2(parameters[1] + parameters[2] + parameters[3])

\* C1: mutate never mutates in place: the instance mutate() is called on has
\* the same pattern (every weight), parameters and seed actions after the
\* call as before it.
C1_MutateLeavesSelf ==
    [][(calls' # calls /\ last'.op = "mutate") =>
          /\ inst'[last'.self] = inst[last'.self]
          /\ heap'[inst[last'.self].pattern] = heap[inst[last'.self].pattern]
      ]_vars

\* C2: the lookup table is never stale: every instance's table maps the i-th
\* key of the canonical ordering to the i-th weight of its current pattern.
C2_TableNeverStale ==
    \A g \in Instances :
        LET keys == KeysOf(inst[g].parameters)
        IN /\ Len(PatternOf(g)) = Len(keys)
           /\ \A i \in 1..Len(keys) : inst[g].lookup[keys[i]] = PatternOf(g)[i]

\* C3: patterns are never shared: a call made on one instance leaves the
\* pattern of every other instance unchanged.
C3_NoCrossInstanceEffect ==
    [][calls' # calls =>
          \A g \in Instances :
              g # last'.self =>
                  heap'[inst'[g].pattern] = heap[inst[g].pattern]
      ]_vars

\* C4: every weight of every instance's pattern lies in [0, 1], after
\* construction and after every mutate.
C4_WeightsAreProbabilities ==
    \A g \in Instances :
        \A i \in 1..Len(PatternOf(g)) :
            PatternOf(g)[i] >= 0 /\ PatternOf(g)[i] <= One

\* A mutate with mutation_probability 1.0 whose perturbed weights were
\* clamped at both ends of the range.
C4_Witness ==
    /\ last.op = "mutate" /\ last.arg = One /\ last.result # 0
    /\ PatternOf(last.result) = <<0, One>>

\* C5: for parents with the same parameters, crossover returns a new
\* instance whose pattern is self's weights before the split index k
\* (0 <= k <= len) followed by other's weights from k on, of the parents'
\* length, with self's parameters and seed actions; self.crossover(self)
\* returns self's pattern.
C5_Crossover ==
    (/\ last.op = "crossover" /\ last.result # 0
     /\ inst[last.self].parameters = inst[last.other].parameters
     /\ Len(PatternOf(last.self)) = Len(PatternOf(last.other)))
    =>
    LET p1 == PatternOf(last.self)
        p2 == PatternOf(last.other)
        child == inst[last.result]
        k == last.arg
    IN /\ k >= 0 /\ k <= Len(p1)
       /\ last.result \notin {last.self, last.other}
       /\ child.pattern \notin {inst[last.self].pattern, inst[last.other].pattern}
       /\ Len(heap[child.pattern]) = Len(p1)
       /\ \A i \in 1..Len(p1) :
             heap[child.pattern][i] = IF i <= k THEN p1[i] ELSE p2[i]
       /\ child.parameters = inst[last.self].parameters
       /\ child.initial_actions = inst[last.self].initial_actions
       /\ (last.self = last.other => heap[child.pattern] = p1)

\* A crossover of two different parents split in the middle.
C5_Witness ==
    /\ last.op = "crossover" /\ last.result # 0
    /\ last.self # last.other
    /\ last.arg = 1
    /\ PatternOf(last.self) = <<1, 8>> /\ PatternOf(last.other) = <<7, 0>>
    /\ PatternOf(last.result) = <<1, 0>>
    /\ inst[last.self].initial_actions # inst[last.other].initial_actions

C10_ZeroProbabilityMutate ==
    [][(/\ calls' # calls /\ last'.op = "mutate" /\ last'.arg = 0
        /\ last'.result # 0) =>
          /\ heap'[inst'[last'.result].pattern] = heap[inst[last'.self].pattern]
          /\ inst'[last'.result].parameters = inst[last'.self].parameters
          /\ Len(inst'[last'.result].initial_actions)
                 = Max3(inst[last'.self].parameters)
          /\ \A i \in 1..Len(inst'[last'.result].initial_actions) :
                 inst'[last'.result].initial_actions[i] \in ActionValues
      ]_vars

\* A mutate with probability 0.0 whose offspring drew seed actions other
\* than its parent's.
C10_Witness ==
    /\ last.op = "mutate" /\ last.arg = 0 /\ last.result # 0
    /\ PatternOf(last.result) = PatternOf(last.self)
    /\ inst[last.result].initial_actions # inst[last.self].initial_actions

----------------------------------------------------------------------------
(* The persistence format, checked under SpecSerialize: one instance of    *)
(* each depth combination, serialized and read back.                       *)

ParamsSerialize == { <<0, 0, 0>>, <<1, 1, 0>>, <<1, 1, 1>>, <<2, 2, 2>> }

\* Patterns of n weights over the whole range: a ramp, a stride, a constant.
PatternsOfLen(n) ==
    { [i \in 1..n |-> (i - 1) % (One + 1)],
      [i \in 1..n |-> (3 * i + 2) % (One + 1)],
      [i \in 1..n |-> One] }

InitSerialize ==
    /\ \E parameters \in ParamsSerialize, mp \in {One} :
         \E pattern \in PatternsOfLen(Len(KeysOf(parameters))),
            initial_actions \in SeqsOfLen(ActionValues, Max3(parameters)) :
            /\ heap = <<pattern>>
            /\ inst = <<EvolvableGambler(parameters, pattern, initial_actions,
                                         mp, 1)>>
    /\ last = NoCall
    /\ serialized = NoString
    /\ play = NoPlay
    /\ calls = 0

NextSerialize == SerializeParameters \/ DeserializeParameters

SpecSerialize == InitSerialize /\ [][NextSerialize]_vars

\* C7: serialize_parameters then deserialize_parameters is a round trip:
\* the instance read back has the parameters, the pattern (element-wise, in
\* order) and the seed actions of the instance that was serialized.
C7_RoundTrip ==
    (/\ last.op = "deserialize"
     /\ serialized.input = serialized.text
     /\ Len(serialized.pattern) = KeySpaceSize(serialized.parameters))
    =>
    /\ last.result # 0
    /\ inst[last.result].parameters = serialized.parameters
    /\ PatternOf(last.result) = serialized.pattern
    /\ inst[last.result].initial_actions = serialized.initial_actions

\* A (2,2,2) instance with 64 weights and two seed actions was read back.
C7_Witness ==
    /\ last.op = "deserialize" /\ last.result # 0
    /\ serialized.input = serialized.text
    /\ serialized.parameters = <<2, 2, 2>>
    /\ inst[last.result].parameters = <<2, 2, 2>>
    /\ Len(PatternOf(last.result)) = 64
    /\ PatternOf(last.result)[2] = 1
    /\ inst[last.result].initial_actions = <<C, D>>

\* What makes a serialized string malformed: a field count other than
\* five, a weight that is no number, a letter that is no action.
Malformed(text) ==
    LET s == Split(text, ":")
    IN \/ Len(s) # 5
       \/ LET w == Split(s[4], "|")
          IN \E i \in 1..Len(w) : ~ParseFloat(w[i]).ok
       \/ ~str_to_actions(s[5]).ok

\* C8: deserialize_parameters rejects every malformed string with an error
\* and returns no instance for it.
C8_MalformedRejected ==
    (last.op = "deserialize" /\ Malformed(serialized.input))
    => (last.result = 0 /\ last.error # "none")

----------------------------------------------------------------------------
(* Gambler.strategy, checked under SpecStrategy *)

Weights == 0..One
Draws == 0..(One - 1)           \* random.random(): u in [0, 1)

TableValues ==
    { [isAction |-> TRUE, v |-> a] : a \in ActionValues }
      \cup { [isAction |-> FALSE, v |-> w] : w \in Weights }

\* random_choice(p): Cooperate when the sample is below p
random_choice(p, u) == IF u < p THEN C ELSE D

\* (variant: no isinstance test, every value is sampled)
strategy_AlwaysSample(actions_or_float, u) ==
    [action |-> random_choice(actions_or_float.v, u), drew |-> TRUE]

\* Gambler.strategy: an Action is returned as it is, anything else is a
\* probability given to random_choice.
strategy(actions_or_float, u) ==
    IF actions_or_float.isAction
    THEN [action |-> actions_or_float.v, drew |-> FALSE]
    ELSE [action |-> random_choice(actions_or_float.v, u), drew |-> TRUE]

\* The table lookup of the next round returns some value; the random module
\* is at some sample.
Lookup ==
    /\ play.pc \in {"off", "played"}
    /\ \E value \in TableValues, u \in Draws :
         play' = [value |-> value, u |-> u, result |-> C, drew |-> FALSE,
                  pc |-> "looked_up"]
    /\ UNCHANGED <<heap, inst, last, serialized, calls>>

Strategy ==
    /\ play.pc = "looked_up"
    /\ LET r == strategy(play.value, play.u)
       IN play' = [play EXCEPT !.result = r.action, !.drew = r.drew,
                               !.pc = "played"]
    /\ UNCHANGED <<heap, inst, last, serialized, calls>>

InitStrategy ==
    /\ heap = <<>>
    /\ inst = <<>>
    /\ last = NoCall
    /\ serialized = NoString
    /\ play = NoPlay
    /\ calls = 0

NextStrategy == Lookup \/ Strategy

SpecStrategy == InitStrategy /\ [][NextStrategy]_vars

\* C9: a literal Action is played as it is, with no random draw; the weight
\* 1.0 plays Cooperate and the weight 0.0 plays Defect whatever the sample;
\* any other weight w plays Cooperate exactly when the sample u < w.
C9_DeterministicEntries ==
    play.pc = "played" =>
        /\ play.value.isAction =>
              (play.result = play.value.v /\ ~play.drew)
        /\ (~play.value.isAction /\ play.value.v = One) => play.result = C
        /\ (~play.value.isAction /\ play.value.v = 0) => play.result = D
        /\ ~play.value.isAction =>
              (play.result = C <=> play.u < play.value.v)

\* The weight 1.0 met the largest sample and Cooperate was played.
C9_Witness ==
    /\ play.pc = "played"
    /\ ~play.value.isAction /\ play.value.v = One
    /\ play.u = One - 1
    /\ play.result = C

====
